---- MODULE Spec2Model ----
(***************************************************************************)
(* State-machine model of the species catalog's client-side consistency    *)
(* layer: the Species Detail Dialog (comment / author / session fetches,   *)
(* comment add and delete) and the Edit Species form (validation schema    *)
(* and submission), each talking to the remote data gateway.               *)
(***************************************************************************)
EXTENDS Integers, Sequences, FiniteSets, Bags, TLC

\* ------------------------------------------------------------------ bounds
MaxComments == 2   \* rows the comments table ever holds (ids 1..MaxComments)
MaxInFlight == 3   \* gateway requests outstanding at once
MaxEdits == 2      \* field edits made in the edit form in one run
MaxSubmits == 2    \* submit clicks made in the edit form in one run
MaxPrompts == 2     \* confirmation prompts shown in one run

\* ------------------------------------------------------------- JS values
NULL == "null"               \* null in an id- or name-typed field
None == <<>>                 \* null in an object-typed field (Some(v) otherwise)
Some(v) == <<v>>

Chars == {" ", "a"}

RECURSIVE SeqsUpTo(_)
SeqsUpTo(n) ==
  IF n = 0 THEN {<<>>}
  ELSE LET S == SeqsUpTo(n - 1)
       IN  S \cup {Append(s, c) : s \in {t \in S : Len(t) = n - 1}, c \in Chars}

\* what the viewer types into the comment textarea: nothing, blanks, a text
CommentTexts == {<<>>, <<" ">>, <<"a">>}

\* String.prototype.trim: strips leading and trailing whitespace.
RECURSIVE TrimLeft(_)
TrimLeft(s) == IF s # <<>> /\ Head(s) = " " THEN TrimLeft(Tail(s)) ELSE s

RECURSIVE TrimRight(_)
TrimRight(s) ==
  IF s # <<>> /\ s[Len(s)] = " " THEN TrimRight(SubSeq(s, 1, Len(s) - 1)) ELSE s

Trim(s) == TrimRight(TrimLeft(s))

\* ------------------------------------------------------- gateway contents
Users == {"u1", "u2"}

\* profiles table: display_name and email are non-null columns.
Profile(u) == [display_name |-> IF u = "u1" THEN "Ann" ELSE "Bob",
               email |-> IF u = "u1" THEN "ann@x" ELSE "bob@x"]

SpeciesId == 1

VARIABLES
  \* SpeciesDetailsDialog component state and props
  open,           \* useState(false)
  author,         \* useState<Author | null>(null)
  comments,       \* useState<Comment[]>([])
  newComment,     \* useState("")
  userId,         \* useState<string | null>(null)
  speciesAuthor,  \* props.species.author
  crashed,        \* the render threw: the component tree is unmounted
  \* remote data gateway
  dbComments,     \* comments table, in insertion order
  nextId,         \* next server-assigned comment id (and created_at tick)
  session,        \* the gateway's authenticated identity, or NULL
  net             \* bag of outstanding requests and undelivered responses

dialogVars == <<open, author, comments, newComment, userId, speciesAuthor,
                crashed, dbComments, nextId, session, net>>

\* ------------------------------------------------------------ requests
Req(kind, id, user, text) ==
  [kind |-> kind, stage |-> "sent", id |-> id, user |-> user, text |-> text,
   rows |-> <<>>]

Answer(r, stage, user, rows) == [r EXCEPT !.stage = stage, !.user = user, !.rows = rows]

InFlight == BagCardinality(net)

\* how many requests of a kind a bag holds, at a stage
CountOf(b, kind, stage) ==
  LET S == {r \in BagToSet(b) : r.kind = kind /\ r.stage = stage}
  IN  IF S = {} THEN 0 ELSE BagCardinality([r \in S |-> b[r]])

One(r) == SetToBag({r})

\* select(`id, comment_text, created_at, user_id, profiles!inner(display_name)`):
\* the row with the joined profile embedded under the key "profiles".
Joined(row) ==
  [id |-> row.id, comment_text |-> row.comment_text, created_at |-> row.created_at,
   user_id |-> row.user_id,
   profiles |-> <<[display_name |-> Profile(row.user_id).display_name]>>]

RECURSIVE Reverse(_)
Reverse(s) == IF s = <<>> THEN <<>> ELSE Append(Reverse(Tail(s)), Head(s))

\* .eq("species_id", species.id).order("created_at", { ascending: false })
RECURSIVE MapJoined(_)
MapJoined(s) == IF s = <<>> THEN <<>> ELSE <<Joined(Head(s))>> \o MapJoined(Tail(s))

SelectComments ==
  MapJoined(Reverse(SelectSeq(dbComments, LAMBDA row : row.species_id = SpeciesId)))

\* ---------------------------------------------------------------- view
HasUser(c) == "user" \in DOMAIN c

\* comments.map(...) reads comment.user.display_name of every entry: an entry
\* without `user` makes the render throw.
RenderThrows(o, cs) == o /\ \E i \in 1..Len(cs) : ~HasUser(cs[i])

\* {comment.user.display_name ?? "Anonymous"}
CommentAuthorShown(c) ==
  IF c.user.display_name = NULL THEN "Anonymous" ELSE c.user.display_name

\* Variant of DeleteControlRendered that offers Delete on every entry.
DeleteControlOnEvery(c) == TRUE

\* {userId === comment.user_id && <button>Delete</button>}
DeleteControlRendered(c) == userId = c.user_id

\* {userId ? <textarea/> <button>Submit</button> : ...}
AddControlRendered == userId # NULL

\* {author ? ... : "Author information not available."}
AuthorSection ==
  IF author # None THEN author[1].display_name
  ELSE "Author information not available."

\* ---------------------------------------------------------------- Init
InitialRows ==
  {<<>>,
   <<[id |-> 1, species_id |-> SpeciesId, user_id |-> "u2",
      comment_text |-> <<"a">>, created_at |-> 1]>>}

DialogInit ==
  /\ open = FALSE
  /\ author = None
  /\ comments = <<>>
  /\ newComment = <<>>
  /\ userId = NULL
  /\ speciesAuthor \in {NULL, "u1"}
  /\ crashed = FALSE
  /\ dbComments \in InitialRows
  /\ nextId = Len(dbComments) + 1
  /\ session \in {NULL} \cup Users
  /\ net = EmptyBag

\* Variant of OpenEffects in which a species without author fetches nothing.
OpenEffectsAuthorFirst ==
  IF speciesAuthor = NULL THEN EmptyBag
  ELSE One(Req("fetchComments", SpeciesId, NULL, <<>>))
         (+) One(Req("getUser", 0, NULL, <<>>))
         (+) One(Req("fetchAuthor", 0, speciesAuthor, <<>>))

\* ------------------------------------------------------ dialog: effects
\* useEffect [open, species.id]: if (open) { fetchComments(); getUserSession(); }
\* useEffect [open, species.author]: if (open) fetchAuthor(), which returns at
\* once when species.author is not set.
OpenEffects ==
  One(Req("fetchComments", SpeciesId, NULL, <<>>))
    (+) One(Req("getUser", 0, NULL, <<>>))
    (+) (IF speciesAuthor # NULL
         THEN One(Req("fetchAuthor", 0, speciesAuthor, <<>>))
         ELSE EmptyBag)

\* <Dialog open={open} onOpenChange={setOpen}> : the trigger sets open to true.
OpenDialog ==
  /\ ~crashed
  /\ ~open
  /\ InFlight + BagCardinality(OpenEffects) <= MaxInFlight
  /\ open' = TRUE
  /\ net' = net (+) OpenEffects
  /\ crashed' = RenderThrows(TRUE, comments)
  /\ UNCHANGED <<author, comments, newComment, userId, speciesAuthor,
                 dbComments, nextId, session>>

\* Variant of CloseDialog that drops what the dialog is waiting for.
CloseDialogCancelling ==
  /\ ~crashed
  /\ open
  /\ open' = FALSE
  /\ crashed' = FALSE
  /\ net' = EmptyBag
  /\ UNCHANGED <<author, comments, newComment, userId, speciesAuthor,
                 dbComments, nextId, session>>

\* Variant of CloseDialog that resets the dialog's state on close.
CloseDialogDiscarding ==
  /\ ~crashed
  /\ open
  /\ open' = FALSE
  /\ comments' = <<>>
  /\ author' = None
  /\ crashed' = FALSE
  /\ UNCHANGED <<newComment, userId, speciesAuthor, dbComments, nextId, session, net>>

\* onOpenChange(false): only `open` is set; both effects re-run and do nothing.
CloseDialog ==
  /\ ~crashed
  /\ open
  /\ open' = FALSE
  /\ crashed' = FALSE
  /\ UNCHANGED <<author, comments, newComment, userId, speciesAuthor,
                 dbComments, nextId, session, net>>

\* ------------------------------------------------- dialog: add a comment
\* onChange={(e) => setNewComment(e.target.value)} on the textarea, which is
\* rendered only for a viewer with a session identity.
SetNewComment(t) ==
  /\ ~crashed
  /\ open
  /\ AddControlRendered
  /\ newComment' = t
  /\ crashed' = RenderThrows(open, comments)
  /\ UNCHANGED <<open, author, comments, userId, speciesAuthor,
                 dbComments, nextId, session, net>>

\* Variant of AddCommentProceeds that tests the text without trimming it.
AddCommentProceedsUntrimmed(text, uid) == text # <<>> /\ uid # NULL

\* if (!newComment.trim() || !userId) return;   -- TRUE when the handler goes on
AddCommentProceeds(text, uid) == Trim(text) # <<>> /\ uid # NULL

\* supabase.from("comments").insert([{ species_id, user_id: userId,
\*   comment_text: newComment }]).select(...).single()
AddCommentRequests(text, uid) ==
  IF AddCommentProceeds(text, uid) THEN One(Req("insert", SpeciesId, uid, text))
  ELSE EmptyBag

\* handleAddComment, up to its await (the Submit button's onClick).
HandleAddComment ==
  /\ ~crashed
  /\ open
  /\ AddControlRendered
  /\ InFlight < MaxInFlight
  /\ net' = net (+) AddCommentRequests(newComment, userId)
  /\ crashed' = RenderThrows(open, comments)
  /\ UNCHANGED <<open, author, comments, newComment, userId, speciesAuthor,
                 dbComments, nextId, session>>

\* Variant of JoinedName that reads display_name off the array itself.
JoinedNameOffArray(data) == "Unknown"

\* typedData.profiles?.[0]?.display_name ?? "Unknown"
JoinedName(data) ==
  IF Len(data.profiles) >= 1 /\ data.profiles[1].display_name # NULL
  THEN data.profiles[1].display_name
  ELSE "Unknown"

\* newCommentObject built from the returned row.
NewCommentObject(data) ==
  [id |-> data.id, comment_text |-> data.comment_text,
   created_at |-> data.created_at, user_id |-> data.user_id,
   user |-> [display_name |-> JoinedName(data)]]

\* setComments((prev) => [newCommentObject, ...prev])
CommentsAfterAdd(prev, data) == <<NewCommentObject(data)>> \o prev

\* setNewComment("")
InputAfterAdd(text) == <<>>

\* handleAddComment after its await, the gateway having returned the created
\* row: if (!error && data) { setComments(...); setNewComment(""); }
AddCommentOk(r) ==
  /\ ~crashed
  /\ r.kind = "insert" /\ r.stage = "ok"
  /\ net' = net (-) One(r)
  /\ comments' = CommentsAfterAdd(comments, r.rows[1])
  /\ newComment' = InputAfterAdd(newComment)
  /\ crashed' = RenderThrows(open, comments')
  /\ UNCHANGED <<open, author, userId, speciesAuthor, dbComments, nextId, session>>

\* handleAddComment after its await, the gateway having answered with an
\* error: nothing is set.
AddCommentErr(r) ==
  /\ ~crashed
  /\ r.kind = "insert" /\ r.stage = "sent"
  /\ net' = net (-) One(r)
  /\ UNCHANGED <<open, author, comments, newComment, userId, speciesAuthor,
                 crashed, dbComments, nextId, session>>

\* ---------------------------------------------- dialog: delete a comment
\* handleDeleteComment(comment.id), up to its await: the Delete button of an
\* entry, rendered only where userId === comment.user_id.
DeleteOffered(c) == DeleteControlRendered(c)

HandleDeleteComment(i) ==
  /\ ~crashed
  /\ open
  /\ i \in 1..Len(comments)
  /\ DeleteOffered(comments[i])
  /\ InFlight < MaxInFlight
  /\ net' = net (+) One(Req("delete", comments[i].id, NULL, <<>>))
  /\ crashed' = RenderThrows(open, comments)
  /\ UNCHANGED <<open, author, comments, newComment, userId, speciesAuthor,
                 dbComments, nextId, session>>

\* Variant of CommentsAfterDelete with the filter's test inverted.
CommentsAfterDeleteInverted(prev, commentId) == SelectSeq(prev, LAMBDA c : c.id = commentId)

\* setComments((prev) => prev.filter((comment) => comment.id !== commentId))
CommentsAfterDelete(prev, commentId) == SelectSeq(prev, LAMBDA c : c.id # commentId)

\* handleDeleteComment after its await, the gateway having deleted the row:
\* if (!error) setComments(...).
DeleteCommentOk(r) ==
  /\ ~crashed
  /\ r.kind = "delete"
  /\ net' = net (-) One(r)
  /\ dbComments' = SelectSeq(dbComments, LAMBDA row : row.id # r.id)
  /\ comments' = CommentsAfterDelete(comments, r.id)
  /\ crashed' = RenderThrows(open, comments')
  /\ UNCHANGED <<open, author, newComment, userId, speciesAuthor, nextId, session>>

\* handleDeleteComment after its await, the gateway having answered with an
\* error: nothing is set, nothing is sent again.
DeleteCommentErr(r) ==
  /\ ~crashed
  /\ r.kind = "delete"
  /\ net' = net (-) One(r)
  /\ UNCHANGED <<open, author, comments, newComment, userId, speciesAuthor,
                 crashed, dbComments, nextId, session>>

\* ------------------------------------------- dialog: fetch continuations
\* setComments(data as unknown as Comment[]): the rows are stored as returned.
CommentsAfterFetch(prev, data) == data

\* fetchComments after its await, the gateway having returned rows:
\* if (data) setComments(data as unknown as Comment[]).
FetchCommentsOk(r) ==
  /\ ~crashed
  /\ r.kind = "fetchComments" /\ r.stage = "ok"
  /\ net' = net (-) One(r)
  /\ comments' = CommentsAfterFetch(comments, r.rows)
  /\ crashed' = RenderThrows(open, comments')
  /\ UNCHANGED <<open, author, newComment, userId, speciesAuthor,
                 dbComments, nextId, session>>

\* fetchComments after its await, the gateway having answered with an error:
\* console.error(...); return.
FetchCommentsErr(r) ==
  /\ ~crashed
  /\ r.kind = "fetchComments" /\ r.stage = "sent"
  /\ net' = net (-) One(r)
  /\ UNCHANGED <<open, author, comments, newComment, userId, speciesAuthor,
                 crashed, dbComments, nextId, session>>

\* getUserSession: supabase.auth.getUser() answers with the gateway's current
\* identity, then setUserId(data?.user?.id ?? null).
GetUserSessionOk(r) ==
  /\ ~crashed
  /\ r.kind = "getUser"
  /\ net' = net (-) One(r)
  /\ userId' = session
  /\ crashed' = RenderThrows(open, comments)
  /\ UNCHANGED <<open, author, comments, newComment, speciesAuthor,
                 dbComments, nextId, session>>

\* getUserSession: if (error) console.error(...), nothing is set.
GetUserSessionErr(r) ==
  /\ ~crashed
  /\ r.kind = "getUser"
  /\ net' = net (-) One(r)
  /\ UNCHANGED <<open, author, comments, newComment, userId, speciesAuthor,
                 crashed, dbComments, nextId, session>>

\* fetchAuthor: profiles.select("display_name, email").eq("id", species.author)
\* .single() answers with the profile, then setAuthor(data).
FetchAuthorOk(r) ==
  /\ ~crashed
  /\ r.kind = "fetchAuthor"
  /\ net' = net (-) One(r)
  /\ author' = Some(Profile(r.user))
  /\ crashed' = RenderThrows(open, comments)
  /\ UNCHANGED <<open, comments, newComment, userId, speciesAuthor,
                 dbComments, nextId, session>>

\* fetchAuthor: if (error) throw error; caught and logged, nothing is set.
FetchAuthorErr(r) ==
  /\ ~crashed
  /\ r.kind = "fetchAuthor"
  /\ net' = net (-) One(r)
  /\ UNCHANGED <<open, author, comments, newComment, userId, speciesAuthor,
                 crashed, dbComments, nextId, session>>

\* ------------------------------------------------------- remote gateway
\* The gateway carries out one outstanding comments request; the continuation
\* of the awaiting handler runs later, when the answer is delivered.
Reply(r, a) ==
  /\ ~crashed
  /\ r.stage = "sent"
  /\ net' = (net (-) One(r)) (+) One(a)
  /\ UNCHANGED <<open, author, comments, newComment, userId, speciesAuthor,
                 crashed, session>>

GatewaySelectComments(r) ==
  /\ r.kind = "fetchComments"
  /\ Reply(r, Answer(r, "ok", r.user, SelectComments))
  /\ UNCHANGED <<dbComments, nextId>>

GatewayInsertComment(r) ==
  /\ r.kind = "insert"
  /\ nextId <= MaxComments
  /\ LET row == [id |-> nextId, species_id |-> r.id, user_id |-> r.user,
                 comment_text |-> r.text, created_at |-> nextId]
     IN  /\ dbComments' = Append(dbComments, row)
         /\ Reply(r, Answer(r, "ok", r.user, <<Joined(row)>>))
  /\ nextId' = nextId + 1

\* The viewer signs out elsewhere in the browser: the gateway client, shared
\* with the dialog, loses its identity.
ViewerSignsOut ==
  /\ ~crashed
  /\ session = "u1"
  /\ session' = NULL
  /\ UNCHANGED <<open, author, comments, newComment, userId, speciesAuthor,
                 crashed, dbComments, nextId, net>>

\* Another user then signs in in the same browser.
OtherUserSignsIn ==
  /\ ~crashed
  /\ session = NULL
  /\ session' = "u2"
  /\ UNCHANGED <<open, author, comments, newComment, userId, speciesAuthor,
                 crashed, dbComments, nextId, net>>

\* ================================================== Edit Species dialog
\* ------------------------------------------------------ validation schema
\* Variant of Kingdoms with a seventh kingdom.
KingdomsAndChromista ==
  {"Animalia", "Plantae", "Fungi", "Protista", "Archaea", "Bacteria", "Chromista"}

\* const kingdoms = z.enum([...])
Kingdoms == {"Animalia", "Plantae", "Fungi", "Protista", "Archaea", "Bacteria"}

\* An absolute URL: the scheme is one leading token of the text.
UrlText == <<"http://", "a">>

\* z.string().url(): new URL(text) parses, which strips surrounding blanks and
\* needs a scheme; the empty and the blank text do not parse.
IsUrl(text) == Trim(text) # <<>> /\ Head(Trim(text)) = "http://"

\* A JS number n is held as the integer 10 * n, so that 1.5 is 15.
IsInteger(n) == n % 10 = 0

Fields == {"scientific_name", "common_name", "kingdom", "total_population",
           "image", "description", "endangered"}

\* Variant of ScientificNameOk that measures the text as typed.
ScientificNameOkUntrimmed(v) == Len(v) >= 1

\* scientific_name: z.string().trim().min(1)
ScientificNameOk(v) == Len(Trim(v)) >= 1

\* z.string().nullable(): null or any string
NullableStringOk(v) == v = None \/ Len(v) = 1

\* total_population: z.number().int().positive().nullable()
PopulationOk(v) == v = None \/ (IsInteger(v[1]) /\ v[1] > 0)

\* image: z.string().url().nullable(): the url check runs on every string, the
\* empty one included, before the transform.
ImageOk(v) == v = None \/ IsUrl(v[1])

\* endangered: z.boolean(): an absent value is rejected.
EndangeredOk(v) == v # None

FieldOk(f, d) ==
  CASE f = "scientific_name" -> ScientificNameOk(d.scientific_name)
    [] f = "common_name" -> NullableStringOk(d.common_name)
    [] f = "kingdom" -> d.kingdom \in Kingdoms
    [] f = "total_population" -> PopulationOk(d.total_population)
    [] f = "image" -> ImageOk(d.image)
    [] f = "description" -> NullableStringOk(d.description)
    [] f = "endangered" -> EndangeredOk(d.endangered)

\* The field-level violations speciesSchema reports on a draft.
ErrorFields(d) == {f \in Fields : ~FieldOk(f, d)}

\* Variant of NullIfBlank that trims and keeps what is left.
NullIfBlankKept(v) == IF v = None THEN None ELSE Some(Trim(v[1]))

\* .transform((val) => (!val || val.trim() === "" ? null : val.trim()))
NullIfBlank(v) == IF v = None \/ Trim(v[1]) = <<>> THEN None ELSE Some(Trim(v[1]))

\* The normalized record speciesSchema produces from a draft it accepts.
Parse(d) ==
  [scientific_name |-> Trim(d.scientific_name),
   common_name |-> NullIfBlank(d.common_name),
   kingdom |-> d.kingdom,
   total_population |-> d.total_population,
   image |-> NullIfBlank(d.image),
   description |-> NullIfBlank(d.description),
   endangered |-> d.endangered]

\* ------------------------------------------------------------- form state
VARIABLES
  species,      \* props.species: the record of the list snapshot
  dbSpecies,    \* the species row the gateway stores
  form,         \* the form's current values (the draft)
  pristine,     \* the form's default values (its pristine baseline)
  formErrors,   \* the fields showing a <FormMessage />
  editOpen,     \* useState(false) of EditSpeciesDialog
  updates,      \* bag of outstanding update requests
  toast,        \* the notification shown last, or None
  edits,        \* field edits made so far
  submits,      \* submit clicks made so far
  calls         \* the calls onSubmit made after its last await, in order

formVars == <<species, dbSpecies, form, pristine, formErrors, editOpen, updates,
              toast, edits, submits, calls>>

\* Variant of DefaultValues that starts the population input empty.
DefaultValuesWithoutPopulation(row) ==
  [scientific_name |-> row.scientific_name,
   common_name |-> row.common_name,
   kingdom |-> row.kingdom,
   total_population |-> None,
   image |-> row.image,
   description |-> row.description,
   endangered |-> row.endangered]

\* useForm defaultValues: scientific_name: species.scientific_name || "", the
\* other six fields as stored.
DefaultValues(row) ==
  [scientific_name |-> row.scientific_name,
   common_name |-> row.common_name,
   kingdom |-> row.kingdom,
   total_population |-> row.total_population,
   image |-> row.image,
   description |-> row.description,
   endangered |-> row.endangered]

\* A species row with every optional column filled in.
FullRow ==
  [id |-> 1, scientific_name |-> <<"a">>, common_name |-> Some(<<"a">>),
   kingdom |-> "Animalia", total_population |-> Some(5000),
   image |-> Some(UrlText), description |-> Some(<<"a">>),
   endangered |-> Some(FALSE), author |-> "u1"]

\* The rows the form is opened on: full; optional columns null; endangered
\* absent; image empty, blank or not a URL; blank common_name and description.
SpeciesRows ==
  {FullRow,
   [FullRow EXCEPT !.common_name = None, !.total_population = None,
                   !.image = None, !.description = None],
   [FullRow EXCEPT !.endangered = None],
   [FullRow EXCEPT !.image = Some(<<>>)],
   [FullRow EXCEPT !.image = Some(<<" ">>)],
   [FullRow EXCEPT !.image = Some(<<"a">>)],
   [FullRow EXCEPT !.common_name = Some(<<" ">>), !.description = Some(<<>>)]}

FormInitFor(row) ==
  /\ species = row
  /\ dbSpecies = row
  /\ form = DefaultValues(row)
  /\ pristine = DefaultValues(row)
  /\ formErrors = {}
  /\ editOpen = FALSE
  /\ updates = EmptyBag
  /\ toast = None
  /\ edits = 0
  /\ submits = 0
  /\ calls = <<>>

\* ------------------------------------------------------------ form inputs
\* what the user types into a text input: nothing, a blank, a padded name
FormTexts == {<<>>, <<" ">>, <<" ", "b">>}

\* what the user picks in the kingdom select, out of kingdoms.options
KingdomChoices == {"Animalia", "Plantae"}

\* what the number input hands to onChange as e.target.value
PopulationInputs ==
  {<<>>, <<"5", "0", "0">>, <<"0">>, <<"-", "5">>, <<"1", ".", "5">>}

\* what the user types into the number input
PopulationTyped == PopulationInputs \cup {<<"a">>}

\* type="number": the input's value is the typed text when that is a number,
\* else the empty string.
NumberInputValue(typed) ==
  IF \A i \in 1..Len(typed) : typed[i] \in {"0", "1", "5", "-", "."} THEN typed ELSE <<>>

DigitValue(c) == CASE c = "0" -> 0 [] c = "1" -> 1 [] c = "5" -> 5

RECURSIVE Digits(_)
Digits(s) == IF s = <<>> THEN 0 ELSE 10 * Digits(SubSeq(s, 1, Len(s) - 1)) + DigitValue(s[Len(s)])

\* Number(text) of a signed decimal with at most one fraction digit, held as
\* ten times its value.
Number(text) ==
  LET neg == text # <<>> /\ Head(text) = "-"
      abs == IF neg THEN Tail(text) ELSE text
      dot == {i \in 1..Len(abs) : abs[i] = "."}
      magnitude ==
        IF dot = {} THEN 10 * Digits(abs)
        ELSE LET i == CHOOSE j \in dot : TRUE
             IN  10 * Digits(SubSeq(abs, 1, i - 1)) + Digits(SubSeq(abs, i + 1, Len(abs)))
  IN  IF neg THEN 0 - magnitude ELSE magnitude

\* onChange={(e) => field.onChange(e.target.value ? Number(e.target.value) : null)}
PopulationOf(text) == IF text # <<>> THEN Some(Number(text)) ELSE None

Edit(field, value) ==
  /\ editOpen
  /\ edits < MaxEdits
  /\ form' = [form EXCEPT ![field] = value]
  /\ edits' = edits + 1
  /\ UNCHANGED <<species, dbSpecies, pristine, formErrors, editOpen, updates,
                 toast, submits, calls>>

\* <Input {...field} /> of scientific_name
SetScientificName(t) == Edit("scientific_name", t)

\* <Input {...field} value={field.value ?? ""} /> of common_name
SetCommonName(t) == Edit("common_name", Some(t))

\* onValueChange={(value) => field.onChange(kingdoms.parse(value))}
SetKingdom(k) == k \in Kingdoms /\ Edit("kingdom", k)

\* the total_population input
SetPopulation(text) == Edit("total_population", PopulationOf(text))

\* onValueChange={(value) => field.onChange(value === "yes")}
SetEndangered(b) == Edit("endangered", Some(b))

\* <Dialog open={open} onOpenChange={setOpen}> of EditSpeciesDialog
OpenEdit ==
  /\ ~editOpen
  /\ editOpen' = TRUE
  /\ UNCHANGED <<species, dbSpecies, form, pristine, formErrors, updates, toast,
                 edits, submits, calls>>

CloseEdit ==
  /\ editOpen
  /\ editOpen' = FALSE
  /\ UNCHANGED <<species, dbSpecies, form, pristine, formErrors, updates, toast,
                 edits, submits, calls>>

\* ------------------------------------------------------------- submission
\* Variant of Payload that writes the author along with the edited fields.
PayloadWithAuthor(input) ==
  [scientific_name |-> input.scientific_name,
   common_name |-> input.common_name,
   kingdom |-> input.kingdom,
   total_population |-> input.total_population,
   image |-> input.image,
   description |-> input.description,
   endangered |-> IF input.endangered = None THEN Some(FALSE) ELSE input.endangered,
   author |-> NULL]

\* The object handed to .update(...): seven fields, endangered: input.endangered ?? false.
Payload(input) ==
  [scientific_name |-> input.scientific_name,
   common_name |-> input.common_name,
   kingdom |-> input.kingdom,
   total_population |-> input.total_population,
   image |-> input.image,
   description |-> input.description,
   endangered |-> IF input.endangered = None THEN Some(FALSE) ELSE input.endangered]

\* supabase.from("species").update(payload).eq("id", species.id), awaited by
\* onSubmit(input).
UpdateRequest(input) == [id |-> species.id, payload |-> Payload(input), input |-> input]

\* form.handleSubmit(onSubmit): the resolver validates the draft; onSubmit runs
\* on the parsed record only when there is no violation, else the violations
\* are shown at their fields.
HandleSubmit ==
  /\ editOpen
  /\ submits < MaxSubmits
  /\ submits' = submits + 1
  /\ formErrors' = ErrorFields(form)
  /\ updates' = IF ErrorFields(form) = {}
                THEN updates (+) One(UpdateRequest(Parse(form)))
                ELSE updates
  /\ UNCHANGED <<species, dbSpecies, form, pristine, editOpen, toast, edits, calls>>

\* The row after update(payload).eq("id", id): the payload's columns replaced.
Updated(row, r) ==
  IF row.id = r.id
  THEN [f \in DOMAIN row |-> IF f \in DOMAIN r.payload THEN r.payload[f] ELSE row[f]]
  ELSE row

\* Variant of SuccessCalls that asks for the refresh before the reset.
SuccessCallsRefreshFirst == <<"router.refresh", "form.reset", "setOpen(false)", "toast">>

\* The success branch of onSubmit, statement by statement.
SuccessCalls == <<"form.reset", "setOpen(false)", "router.refresh", "toast">>

\* onSubmit after its await, the gateway having written the row:
\* form.reset(input); setOpen(false); router.refresh(); toast(...).
UpdateOk(r) ==
  /\ dbSpecies' = Updated(dbSpecies, r)
  /\ updates' = updates (-) One(r)
  /\ form' = r.input
  /\ pristine' = r.input
  /\ formErrors' = {}
  /\ editOpen' = FALSE
  /\ species' = dbSpecies'
  /\ toast' = Some([title |-> "Species updated!", description |-> "Successfully updated"])
  /\ calls' = SuccessCalls
  /\ UNCHANGED <<edits, submits>>

\* error.message of an answer that carries an error
GatewayErrors == {"denied", "violates constraint"}

\* onSubmit after its await, the gateway having answered with an error:
\* toast({ title: "Error updating species.", description: error.message }).
UpdateErr(r) ==
  /\ updates' = updates (-) One(r)
  /\ \E msg \in GatewayErrors :
       toast' = Some([title |-> "Error updating species.", description |-> msg])
  /\ calls' = <<"toast">>
  /\ UNCHANGED <<species, dbSpecies, form, pristine, formErrors, editOpen,
                 edits, submits>>

\* onSubmit, its await having thrown: catch (error) { console.error(...) }.
UpdateThrows(r) ==
  /\ updates' = updates (-) One(r)
  /\ calls' = <<"console.error">>
  /\ UNCHANGED <<species, dbSpecies, form, pristine, formErrors, editOpen, toast,
                 edits, submits>>

\* ========================================================= Species Card
VARIABLES
  sessionId,    \* props.sessionId: the identity SpeciesList read at page load
  isDeleting,   \* useState(false) of SpeciesCard
  deletes,      \* bag of outstanding species delete requests
  dbPresent,    \* the gateway stores the species row
  reloading,    \* window.location.reload() was called, the page not yet loaded
  mounted,      \* the page shows the card
  prompts       \* the answers given to window.confirm so far

cardVars == <<sessionId, isDeleting, deletes, dbPresent, reloading, mounted, prompts>>

\* Variant of OwnershipGate that shows the controls to every viewer.
OwnershipGateOpen(row, sid) == TRUE

\* species.author === sessionId
OwnershipGate(row, sid) == row.author = sid

\* The card's render: EditSpeciesDialog and the Delete button, or the notice.
CardControls(row, sid) ==
  IF OwnershipGate(row, sid) THEN {"edit", "delete"} ELSE {"cannot edit"}

\* The page is shown and no reload is under way.
PageLive == mounted /\ ~reloading

\* EditSpeciesDialog is part of the card's render.
EditRendered == PageLive /\ "edit" \in CardControls(species, sessionId)

\* <Button ... disabled={isDeleting}> is part of the card's render and enabled.
DeleteEnabled == PageLive /\ "delete" \in CardControls(species, sessionId) /\ ~isDeleting

CardInitFor(sid) ==
  /\ sessionId = sid
  /\ isDeleting = FALSE
  /\ deletes = EmptyBag
  /\ dbPresent = TRUE
  /\ reloading = FALSE
  /\ mounted = TRUE
  /\ prompts = <<>>

\* Variant of ProceedsAfterConfirm that goes on whatever the answer.
ProceedsWhateverAnswer(confirmDelete) == TRUE

\* if (!confirmDelete) return;
ProceedsAfterConfirm(confirmDelete) == confirmDelete

\* supabase.from("species").delete().eq("id", species.id)
DeleteRequest == [id |-> species.id]

\* handleDelete up to its await: window.confirm answered by confirmDelete.
HandleDelete(confirmDelete) ==
  /\ DeleteEnabled
  /\ Len(prompts) < MaxPrompts
  /\ prompts' = Append(prompts, confirmDelete)
  /\ IF ProceedsAfterConfirm(confirmDelete)
     THEN /\ isDeleting' = TRUE
          /\ deletes' = deletes (+) One(DeleteRequest)
     ELSE UNCHANGED <<isDeleting, deletes>>
  /\ UNCHANGED <<sessionId, dbPresent, reloading, mounted, formVars, dialogVars>>

\* Variant of AfterDelete that reloads only when the delete went through.
AfterDeleteReloadOnSuccess(failed) == ~failed

\* window.location.reload() at the end of handleDelete, on either branch.
AfterDelete(failed) == TRUE

\* handleDelete after its await, the gateway having deleted the row: the
\* success toast, setIsDeleting(false), window.location.reload().
DeleteSpeciesOk(r) ==
  /\ PageLive
  /\ dbPresent' = (dbPresent /\ r.id # dbSpecies.id)
  /\ deletes' = deletes (-) One(r)
  /\ toast' = Some([title |-> "Species deleted", description |-> "was successfully deleted."])
  /\ isDeleting' = FALSE
  /\ reloading' = AfterDelete(FALSE)
  /\ UNCHANGED <<sessionId, mounted, prompts, species, dbSpecies, form, pristine,
                 formErrors, editOpen, updates, edits, submits, calls, dialogVars>>

\* handleDelete after its await, the gateway having answered with an error:
\* the error toast, setIsDeleting(false), window.location.reload().
DeleteSpeciesErr(r) ==
  /\ PageLive
  /\ deletes' = deletes (-) One(r)
  /\ \E msg \in GatewayErrors :
       toast' = Some([title |-> "Error deleting species", description |-> msg])
  /\ isDeleting' = FALSE
  /\ reloading' = AfterDelete(TRUE)
  /\ UNCHANGED <<sessionId, dbPresent, mounted, prompts, species, dbSpecies, form,
                 pristine, formErrors, editOpen, updates, edits, submits, calls,
                 dialogVars>>

\* The rows the gateway may hold once the page that sent `pending` is gone:
\* none or one of the outstanding updates has been written.
SettledRows(row, pending) == {row} \cup {Updated(row, r) : r \in BagToSet(pending)}

\* The reloaded document: SpeciesList reads the session and the species again,
\* every component mounts anew, and what the old document awaited is dropped.
PageLoads ==
  /\ reloading
  /\ reloading' = FALSE
  /\ dbSpecies' \in SettledRows(dbSpecies, updates)
  /\ species' = dbSpecies'
  /\ sessionId' = session
  /\ mounted' = (dbPresent /\ session # NULL)
  /\ isDeleting' = FALSE
  /\ deletes' = EmptyBag
  /\ updates' = EmptyBag
  /\ form' = DefaultValues(dbSpecies')
  /\ pristine' = DefaultValues(dbSpecies')
  /\ formErrors' = {}
  /\ editOpen' = FALSE
  /\ toast' = None
  /\ calls' = <<>>
  /\ UNCHANGED <<dbPresent, prompts, edits, submits, dialogVars>>

\* ------------------------------------------------- order of dispatch
\* History of the comments fetches: what became of the one dispatched last.
\* The component keeps no such record; the variable is read by no action.
VARIABLES
  latestFetch     \* stage "none", "sent", "ok" (with its rows) or "error"

orderVars == <<latestFetch>>

NoFetch == [stage |-> "none", rows |-> <<>>]

\* fetchComments() is called: the fetch it sends is now the latest.
Dispatched == latestFetch' = [stage |-> "sent", rows |-> <<>>]

\* One unanswered comments fetch is settled: the latest one, or, when there is
\* another, an earlier one (the requests are alike, only their order differs).
Settled(stage, rows) ==
  \/ /\ latestFetch.stage = "sent"
     /\ latestFetch' = [stage |-> stage, rows |-> rows]
  \/ /\ latestFetch.stage # "sent" \/ CountOf(net, "fetchComments", "sent") > 1
     /\ UNCHANGED latestFetch

\* The edit form on its own.
FormNext ==
  \/ OpenEdit /\ UNCHANGED <<dialogVars, cardVars, orderVars>>
  \/ CloseEdit /\ UNCHANGED <<dialogVars, cardVars, orderVars>>
  \/ \E t \in FormTexts : SetScientificName(t) /\ UNCHANGED <<dialogVars, cardVars, orderVars>>
  \/ \E t \in FormTexts : SetCommonName(t) /\ UNCHANGED <<dialogVars, cardVars, orderVars>>
  \/ \E k \in KingdomChoices : SetKingdom(k) /\ UNCHANGED <<dialogVars, cardVars, orderVars>>
  \/ \E typed \in PopulationTyped : SetPopulation(NumberInputValue(typed)) /\ UNCHANGED <<dialogVars, cardVars, orderVars>>
  \/ \E b \in BOOLEAN : SetEndangered(b) /\ UNCHANGED <<dialogVars, cardVars, orderVars>>
  \/ HandleSubmit /\ UNCHANGED <<dialogVars, cardVars, orderVars>>
  \/ \E r \in BagToSet(updates) : UpdateOk(r) /\ UNCHANGED <<dialogVars, cardVars, orderVars>>
  \/ \E r \in BagToSet(updates) : UpdateErr(r) /\ UNCHANGED <<dialogVars, cardVars, orderVars>>
  \/ \E r \in BagToSet(updates) : UpdateThrows(r) /\ UNCHANGED <<dialogVars, cardVars, orderVars>>

\* The card with its edit form; the detail dialog is left alone.
CardNext ==
  \/ (\E confirmDelete \in BOOLEAN : HandleDelete(confirmDelete)) /\ UNCHANGED orderVars
  \/ (\E r \in BagToSet(deletes) : DeleteSpeciesOk(r)) /\ UNCHANGED orderVars
  \/ (\E r \in BagToSet(deletes) : DeleteSpeciesErr(r)) /\ UNCHANGED orderVars
  \/ PageLoads /\ UNCHANGED orderVars
  \/ ViewerSignsOut /\ UNCHANGED <<formVars, cardVars, orderVars>>
  \/ OtherUserSignsIn /\ UNCHANGED <<formVars, cardVars, orderVars>>
  \/ EditRendered /\ OpenEdit /\ UNCHANGED <<dialogVars, cardVars, orderVars>>
  \/ EditRendered /\ CloseEdit /\ UNCHANGED <<dialogVars, cardVars, orderVars>>
  \/ EditRendered /\ (\E k \in KingdomChoices : SetKingdom(k)) /\ UNCHANGED <<dialogVars, cardVars, orderVars>>
  \/ EditRendered /\ HandleSubmit /\ UNCHANGED <<dialogVars, cardVars, orderVars>>
  \/ \E r \in BagToSet(updates) : PageLive /\ UpdateOk(r) /\ UNCHANGED <<dialogVars, cardVars, orderVars>>
  \/ \E r \in BagToSet(updates) : PageLive /\ UpdateErr(r) /\ UNCHANGED <<dialogVars, cardVars, orderVars>>
  \/ \E r \in BagToSet(updates) : PageLive /\ UpdateThrows(r) /\ UNCHANGED <<dialogVars, cardVars, orderVars>>

\* ----------------------------------------------------------- dialog Next
\* Comments, session and open/close: everything but the author lookup.
CommentsNext ==
  \/ OpenDialog /\ UNCHANGED <<formVars, cardVars, orderVars>>
  \/ CloseDialog /\ UNCHANGED <<formVars, cardVars, orderVars>>
  \/ \E t \in CommentTexts : SetNewComment(t) /\ UNCHANGED <<formVars, cardVars, orderVars>>
  \/ HandleAddComment /\ UNCHANGED <<formVars, cardVars, orderVars>>
  \/ \E i \in 1..MaxComments : HandleDeleteComment(i) /\ UNCHANGED <<formVars, cardVars, orderVars>>
  \/ \E r \in BagToSet(net) : AddCommentOk(r) /\ UNCHANGED <<formVars, cardVars, orderVars>>
  \/ \E r \in BagToSet(net) : AddCommentErr(r) /\ UNCHANGED <<formVars, cardVars, orderVars>>
  \/ \E r \in BagToSet(net) : DeleteCommentOk(r) /\ UNCHANGED <<formVars, cardVars, orderVars>>
  \/ \E r \in BagToSet(net) : DeleteCommentErr(r) /\ UNCHANGED <<formVars, cardVars, orderVars>>
  \/ \E r \in BagToSet(net) : FetchCommentsOk(r) /\ UNCHANGED <<formVars, cardVars, orderVars>>
  \/ \E r \in BagToSet(net) : FetchCommentsErr(r) /\ UNCHANGED <<formVars, cardVars, orderVars>>
  \/ \E r \in BagToSet(net) : GetUserSessionOk(r) /\ UNCHANGED <<formVars, cardVars, orderVars>>
  \/ \E r \in BagToSet(net) : GetUserSessionErr(r) /\ UNCHANGED <<formVars, cardVars, orderVars>>
  \/ \E r \in BagToSet(net) : GatewaySelectComments(r) /\ UNCHANGED <<formVars, cardVars, orderVars>>
  \/ \E r \in BagToSet(net) : GatewayInsertComment(r) /\ UNCHANGED <<formVars, cardVars, orderVars>>

AuthorNext ==
  \/ \E r \in BagToSet(net) : FetchAuthorOk(r) /\ UNCHANGED <<formVars, cardVars, orderVars>>
  \/ \E r \in BagToSet(net) : FetchAuthorErr(r) /\ UNCHANGED <<formVars, cardVars, orderVars>>

DialogNext == CommentsNext \/ AuthorNext

vars == <<dialogVars, formVars, cardVars, orderVars>>

\* The detail dialog of one species card, the viewer's identity fixed for the
\* run, the card's edit form left alone.
Init == DialogInit /\ FormInitFor(FullRow) /\ CardInitFor("u1") /\ latestFetch = NoFetch

Next == DialogNext

Spec == Init /\ [][Next]_vars

\* The detail dialog of a species without author on an empty comments table,
\* opened by u1, who signs out, after which u2 signs in.
SessionInit ==
  /\ DialogInit /\ speciesAuthor = NULL /\ dbComments = <<>> /\ session = "u1"
  /\ FormInitFor(FullRow) /\ CardInitFor("u1") /\ latestFetch = NoFetch

SessionNext ==
  \/ CommentsNext
  \/ ViewerSignsOut /\ UNCHANGED <<formVars, cardVars, orderVars>>
  \/ OtherUserSignsIn /\ UNCHANGED <<formVars, cardVars, orderVars>>

SessionSpec == SessionInit /\ [][SessionNext]_vars

\* The edit form of one species card, opened on each of the rows, the card's
\* detail dialog left alone.
FormInit ==
  /\ DialogInit /\ speciesAuthor = NULL /\ dbComments = <<>> /\ session = NULL
  /\ \E row \in SpeciesRows : FormInitFor(row)
  /\ CardInitFor("u1") /\ latestFetch = NoFetch

FormSpec == FormInit /\ [][FormNext]_vars

\* The rows the card is shown for: every optional column filled in, or null.
CardRows ==
  {FullRow,
   [FullRow EXCEPT !.common_name = None, !.total_population = None,
                   !.image = None, !.description = None]}

\* One card of the list page, shown to the species' author or to another
\* signed-in user.
CardInit ==
  /\ \E sid \in Users :
       /\ CardInitFor(sid) /\ latestFetch = NoFetch
       /\ DialogInit /\ speciesAuthor = "u1" /\ dbComments = <<>> /\ session = sid
  /\ \E row \in CardRows : FormInitFor(row)

CardSpec == CardInit /\ [][CardNext]_vars

\* The awaited delete is answered and the reload the browser was asked for
\* takes place.
CardFairness ==
  /\ WF_vars((\E r \in BagToSet(deletes) : DeleteSpeciesOk(r) \/ DeleteSpeciesErr(r))
             /\ UNCHANGED orderVars)
  /\ WF_vars(PageLoads /\ UNCHANGED orderVars)

CardLiveSpec == CardSpec /\ CardFairness

\* The drafts handed to the schema: names, kingdoms inside and outside the
\* enum, and populations null, positive, zero, negative and fractional.
Drafts ==
  [scientific_name : {<<"a">>, <<" ">>},
   common_name : {None},
   kingdom : {"Animalia", "Chromista", ""},
   total_population : {None, Some(5000), Some(0), Some(0 - 50), Some(15)},
   image : {None},
   description : {None},
   endangered : {Some(TRUE)}]

\* The open edit form holding any of the drafts, whatever way it came by it.
DraftInit ==
  /\ DialogInit /\ speciesAuthor = NULL /\ dbComments = <<>> /\ session = NULL
  /\ CardInitFor("u1") /\ latestFetch = NoFetch
  /\ species = FullRow /\ dbSpecies = FullRow
  /\ pristine = DefaultValues(FullRow)
  /\ form \in Drafts
  /\ formErrors = {} /\ editOpen = TRUE /\ updates = EmptyBag
  /\ toast = None /\ edits = 0 /\ submits = 0 /\ calls = <<>>

DraftNext ==
  \/ OpenEdit /\ UNCHANGED <<dialogVars, cardVars, orderVars>>
  \/ CloseEdit /\ UNCHANGED <<dialogVars, cardVars, orderVars>>
  \/ HandleSubmit /\ UNCHANGED <<dialogVars, cardVars, orderVars>>
  \/ \E r \in BagToSet(updates) : UpdateOk(r) /\ UNCHANGED <<dialogVars, cardVars, orderVars>>
  \/ \E r \in BagToSet(updates) : UpdateErr(r) /\ UNCHANGED <<dialogVars, cardVars, orderVars>>
  \/ \E r \in BagToSet(updates) : UpdateThrows(r) /\ UNCHANGED <<dialogVars, cardVars, orderVars>>

DraftSpec == DraftInit /\ [][DraftNext]_vars

\* The detail dialog of a species without author, opened, closed and reopened
\* by u1, with the order of its comments fetches on record.
OrderInit ==
  /\ DialogInit /\ speciesAuthor = NULL /\ session = "u1"
  /\ FormInitFor(FullRow) /\ CardInitFor("u1") /\ latestFetch = NoFetch

OrderNext ==
  \/ OpenDialog /\ Dispatched /\ UNCHANGED <<formVars, cardVars>>
  \/ CloseDialog /\ UNCHANGED <<formVars, cardVars, orderVars>>
  \/ \E t \in CommentTexts : SetNewComment(t) /\ UNCHANGED <<formVars, cardVars, orderVars>>
  \/ HandleAddComment /\ UNCHANGED <<formVars, cardVars, orderVars>>
  \/ \E i \in 1..MaxComments : HandleDeleteComment(i) /\ UNCHANGED <<formVars, cardVars, orderVars>>
  \/ \E r \in BagToSet(net) : AddCommentOk(r) /\ UNCHANGED <<formVars, cardVars, orderVars>>
  \/ \E r \in BagToSet(net) : AddCommentErr(r) /\ UNCHANGED <<formVars, cardVars, orderVars>>
  \/ \E r \in BagToSet(net) : DeleteCommentOk(r) /\ UNCHANGED <<formVars, cardVars, orderVars>>
  \/ \E r \in BagToSet(net) : DeleteCommentErr(r) /\ UNCHANGED <<formVars, cardVars, orderVars>>
  \/ \E r \in BagToSet(net) : FetchCommentsOk(r) /\ UNCHANGED <<formVars, cardVars, orderVars>>
  \/ \E r \in BagToSet(net) :
       FetchCommentsErr(r) /\ Settled("error", <<>>) /\ UNCHANGED <<formVars, cardVars>>
  \/ \E r \in BagToSet(net) : GetUserSessionOk(r) /\ UNCHANGED <<formVars, cardVars, orderVars>>
  \/ \E r \in BagToSet(net) : GetUserSessionErr(r) /\ UNCHANGED <<formVars, cardVars, orderVars>>
  \/ \E r \in BagToSet(net) :
       GatewaySelectComments(r) /\ Settled("ok", SelectComments) /\ UNCHANGED <<formVars, cardVars>>
  \/ \E r \in BagToSet(net) : GatewayInsertComment(r) /\ UNCHANGED <<formVars, cardVars, orderVars>>

OrderSpec == OrderInit /\ [][OrderNext]_vars

C2_AddCommentGuard ==
  [][ /\ HandleAddComment =>
           /\ comments' = comments /\ newComment' = newComment
           /\ CountOf(net', "fetchComments", "sent") = CountOf(net, "fetchComments", "sent")
           /\ IF Trim(newComment) = <<>> \/ userId = NULL
              THEN net' = net
              ELSE /\ BagCardinality(net') = BagCardinality(net) + 1
                   /\ CountOf(net', "insert", "sent") = CountOf(net, "insert", "sent") + 1
                   /\ BagIn(Req("insert", SpeciesId, userId, newComment), net')
      /\ \A r \in BagToSet(net') :
           r.kind = "insert" => Trim(r.text) # <<>> /\ r.user # NULL
    ]_vars

\* A blank text sits in the input of a logged-in viewer whose earlier insert
\* is still on its way.
C2_Witness ==
  /\ open /\ ~crashed /\ AddControlRendered
  /\ newComment # <<>> /\ Trim(newComment) = <<>>
  /\ CountOf(net, "insert", "sent") = 1

\* C3: when the continuation of a successful insert runs, the created row
\* becomes the first entry of the list, the rest of the list following it
\* unchanged; the view reads the inserting viewer's profile display name off
\* it; the input is empty; and an open dialog that rendered before renders.
C3_CreatedCommentOnTop ==
  [][ \A r \in BagToSet(net) : AddCommentOk(r) =>
        /\ comments' # <<>>
        /\ Head(comments').id = r.rows[1].id
        /\ Head(comments').comment_text = r.text
        /\ Head(comments').user_id = r.user
        /\ Tail(comments') = comments
        /\ HasUser(Head(comments'))
        /\ CommentAuthorShown(Head(comments')) = Profile(r.user).display_name
        /\ newComment' = <<>>
        /\ ~crashed'
    ]_vars

\* An open dialog showing the viewer's own created comment on top, input empty.
C3_Witness ==
  /\ open /\ ~crashed /\ comments # <<>> /\ newComment = <<>>
  /\ Head(comments).user_id = userId
  /\ CommentAuthorShown(Head(comments)) = Profile(userId).display_name
  /\ Len(comments) = 2

\* C4 (as stated): every entry of the comment list carries, in the field the
\* view reads (comment.user.display_name), its author's profile display name.
C4_EveryEntryHasDisplayName ==
  \A i \in 1..Len(comments) :
    /\ HasUser(comments[i])
    /\ comments[i].user.display_name = Profile(comments[i].user_id).display_name

\* C5: the continuation of a successful delete removes the entries with that
\* id and nothing else, the other entries keeping their order; the
\* continuation of a failed delete leaves the list as it was; neither sends
\* anything.
RECURSIVE Without(_, _)
Without(s, id) ==
  IF s = <<>> THEN <<>>
  ELSE IF Head(s).id = id THEN Without(Tail(s), id)
       ELSE <<Head(s)>> \o Without(Tail(s), id)

C5_DeleteRemovesOnlyThatEntry ==
  [][ \A r \in BagToSet(net) :
        /\ DeleteCommentOk(r) =>
             /\ comments' = Without(comments, r.id)
             /\ \A i \in 1..Len(comments') : comments'[i].id # r.id
             /\ Len(comments') =
                  Len(comments) - Cardinality({i \in 1..Len(comments) : comments[i].id = r.id})
             /\ net' = net (-) One(r)
        /\ DeleteCommentErr(r) =>
             /\ comments' = comments
             /\ net' = net (-) One(r)
    ]_vars

\* A row has been deleted at the gateway and another entry is still listed.
C5_Witness ==
  /\ open /\ ~crashed /\ Len(comments) = 1
  /\ nextId = 3 /\ Len(dbComments) = 1
  /\ CountOf(net, "delete", "sent") = 0

\* C6: whenever a delete request is sent, the entry it names is in the list
\* and its user_id is the session identity the dialog holds.
C6_DeleteOnlyOwnComment ==
  [][ \A r \in BagToSet(net') :
        (r.kind = "delete" /\ CopiesIn(r, net') > CopiesIn(r, net)) =>
          \E i \in 1..Len(comments) :
            /\ comments[i].id = r.id
            /\ comments[i].user_id = userId
            /\ userId # NULL
    ]_vars

\* A logged-in viewer looks at another user's comment: no Delete control.
C6_Witness ==
  /\ open /\ ~crashed /\ userId # NULL
  /\ \E i \in 1..Len(comments) :
       comments[i].user_id # userId /\ ~DeleteControlRendered(comments[i])

C8_BlankNameBlocksSubmit ==
  [][(HandleSubmit /\ Trim(form.scientific_name) = <<>>)
       => (updates' = updates /\ "scientific_name" \in formErrors')]_vars

\* A draft that is valid but for its whitespace-only scientific_name has been
\* submitted: the error is at the field and nothing has been sent.
C8_Witness ==
  /\ editOpen /\ submits > 0
  /\ form.scientific_name = <<" ">>
  /\ formErrors = {"scientific_name"}
  /\ updates = EmptyBag /\ toast = None

\* C9: a submit of a draft whose image is the empty string, its other fields
\* valid, passes validation and sends one update whose image is null.
C9_EmptyImageWrittenAsNull ==
  [][(HandleSubmit /\ form.image = Some(<<>>) /\ ErrorFields(form) \subseteq {"image"})
       => \E r \in BagToSet(updates') :
            /\ updates' = updates (+) One(r)
            /\ r.payload.image = None]_vars

\* C9, the part about the two free-text fields: every update sent by a submit
\* carries null, never an empty or blank text, as common_name and description,
\* and a draft's blank common_name or description is written as null.
C9_BlankTextsWrittenAsNull ==
  [][HandleSubmit =>
       \A r \in BagToSet(updates') :
         /\ \A f \in {"common_name", "description", "image"} :
              r.payload[f] = None \/ Trim(r.payload[f][1]) # <<>>
         /\ updates' = updates (+) One(r) =>
              \A f \in {"common_name", "description"} :
                (form[f] # None /\ Trim(form[f][1]) = <<>>) => r.payload[f] = None]_vars

\* An update is in flight whose draft had a whitespace-only common_name.
C9_Witness ==
  /\ form.common_name = Some(<<" ">>)
  /\ \E r \in BagToSet(updates) : r.payload.common_name = None /\ r.input = Parse(form)

\* C10: a submit of a draft that passes validation adds exactly one update
\* request, keyed by the record's id; no update payload has an author field;
\* and no step changes the stored row's author.
C10_OneUpdateKeyedByIdWithoutAuthor ==
  [][/\ (HandleSubmit /\ ErrorFields(form) = {}) =>
          \E r \in BagToSet(updates') :
            /\ updates' = updates (+) One(r)
            /\ r.id = species.id
     /\ \A r \in BagToSet(updates') : "author" \notin DOMAIN r.payload
     /\ dbSpecies'.author = dbSpecies.author]_vars

\* Two edits have been written to the row, whose author is who it was.
C10_Witness ==
  /\ dbSpecies.kingdom = "Plantae"
  /\ dbSpecies.scientific_name = <<"b">>
  /\ dbSpecies.author = "u1"
  /\ species = dbSpecies
  /\ toast # None

\* C11 (as stated): when the write of a submit fails, by an error answer or
\* by the awaited call throwing, an error notification with the gateway's
\* message is shown, the dialog is as open as it was and the draft is the same.
C11_FailedWriteNotified ==
  [][\A r \in BagToSet(updates) :
       (UpdateErr(r) \/ UpdateThrows(r)) =>
         /\ toast' # None
         /\ toast'[1].title = "Error updating species."
         /\ toast'[1].description \in GatewayErrors
         /\ editOpen' = editOpen
         /\ form' = form]_vars

\* C11, the part about an error answer and about the draft: an error answer
\* shows the notification with the gateway's message; an error answer and a
\* thrown call alike leave the dialog as open as it was, the draft, the
\* pristine baseline and the stored row as they were, and send nothing.
C11_ErrorAnswerNotifiedDraftKept ==
  [][\A r \in BagToSet(updates) :
       /\ UpdateErr(r) =>
            /\ toast' # None
            /\ toast'[1].title = "Error updating species."
            /\ toast'[1].description \in GatewayErrors
       /\ (UpdateErr(r) \/ UpdateThrows(r)) =>
            /\ editOpen' = editOpen /\ form' = form /\ pristine' = pristine
            /\ dbSpecies' = dbSpecies /\ updates' = updates (-) One(r)]_vars

\* An edited draft in an open dialog after its write was answered by an error.
C11_Witness ==
  /\ editOpen /\ form # pristine /\ updates = EmptyBag /\ submits = 1
  /\ toast # None /\ toast[1].title = "Error updating species."
  /\ dbSpecies = species

\* C12 (as stated): a submit of the draft that equals the stored record, for
\* every stored record, passes validation and sends exactly one update.
C12_ResubmitStoredRecord ==
  [][(HandleSubmit /\ form = DefaultValues(dbSpecies)) =>
       /\ formErrors' = {}
       /\ \E r \in BagToSet(updates') :
            updates' = updates (+) One(r) /\ r.id = dbSpecies.id]_vars

\* C12, for the records that store endangered and store null or a URL as
\* image: the resubmitted draft passes and sends exactly one update, null
\* common_name, total_population, image and description included.
C12_ResubmitWithNullOptionals ==
  [][(/\ HandleSubmit /\ form = DefaultValues(dbSpecies)
      /\ dbSpecies.endangered # None
      /\ (dbSpecies.image = None \/ IsUrl(dbSpecies.image[1]))) =>
       /\ formErrors' = {}
       /\ \E r \in BagToSet(updates') :
            updates' = updates (+) One(r) /\ r.id = dbSpecies.id]_vars

\* The untouched draft of a record whose optional columns are all null is on
\* its way to the gateway.
C12_Witness ==
  /\ dbSpecies.common_name = None /\ dbSpecies.total_population = None
  /\ dbSpecies.image = None /\ dbSpecies.description = None
  /\ form = DefaultValues(dbSpecies) /\ edits = 0
  /\ BagCardinality(updates) = 1

\* C13 (as stated): a submit of a draft without endangered, its other fields
\* valid, passes validation and sends one update whose endangered is false.
C13_AbsentEndangeredDefaultsFalse ==
  [][(HandleSubmit /\ form.endangered = None /\ ErrorFields(form) \subseteq {"endangered"}) =>
       /\ "endangered" \notin formErrors'
       /\ \E r \in BagToSet(updates') :
            updates' = updates (+) One(r) /\ r.payload.endangered = Some(FALSE)]_vars

\* ========================================================= Species Card
\* C14: the card shows the edit and the delete control exactly when
\* species.author equals the sessionId it was given, which is all its render
\* reads; every step that sends a species update or a species delete is taken
\* on a card whose sessionId is the species' author; and while the two differ
\* nothing is outstanding and the stored row stays as it is.
C14_ControlsOnlyForAuthor ==
  [][/\ \A c \in {"edit", "delete"} :
          c \in CardControls(species, sessionId) <=> species.author = sessionId
     /\ (\/ BagCardinality(updates') > BagCardinality(updates)
         \/ BagCardinality(deletes') > BagCardinality(deletes)) =>
          /\ species.author = sessionId
          /\ mounted
     /\ (mounted /\ ~reloading /\ species.author # sessionId) =>
          /\ updates = EmptyBag /\ deletes = EmptyBag
          /\ dbSpecies' = dbSpecies /\ dbPresent' = dbPresent
          /\ updates' = updates /\ deletes' = deletes]_vars

\* The page, reloaded after the author's failed delete and a change of user,
\* shows the card to someone who is not the author: no controls.
C14_Witness ==
  /\ mounted /\ ~reloading
  /\ sessionId = "u2" /\ species.author = "u1"
  /\ prompts = <<TRUE>>
  /\ CardControls(species, sessionId) = {"cannot edit"}

\* C15: a confirmed delete sends exactly one delete request, for the card's
\* species id; the answer to it, success or error, shows the matching
\* notification and asks for the reload in the same step, so that the
\* notification is up whenever a reload is under way; and a delete under way
\* always leads to a reload, which always leads to the page loaded anew.
C15_DeleteThenReload ==
  /\ [][/\ HandleDelete(TRUE) =>
             /\ deletes = EmptyBag
             /\ deletes' = One([id |-> species.id])
        /\ \A r \in BagToSet(deletes) :
             /\ DeleteSpeciesOk(r) =>
                  reloading' /\ toast' # None /\ toast'[1].title = "Species deleted"
             /\ DeleteSpeciesErr(r) =>
                  reloading' /\ toast' # None /\ toast'[1].title = "Error deleting species"
        /\ reloading =>
             /\ toast # None
             /\ toast[1].title \in {"Species deleted", "Error deleting species"}
             /\ deletes = EmptyBag]_vars
  /\ (deletes # EmptyBag) ~> reloading
  /\ reloading ~> ~reloading

\* A failed delete has been answered: the error notification is up and the
\* reload is under way, the row still stored.
C15_Witness ==
  /\ reloading /\ dbPresent /\ ~isDeleting
  /\ toast # None /\ toast[1].title = "Error deleting species"

\* C16: a declined confirmation sends nothing, asks for no reload, and leaves
\* the card, its edit form, the notification and the stored row as they were.
C16_DeclinedDeleteDoesNothing ==
  [][HandleDelete(FALSE) =>
       /\ deletes' = deletes /\ updates' = updates
       /\ reloading' = reloading /\ mounted' = mounted /\ isDeleting' = isDeleting
       /\ toast' = toast /\ species' = species
       /\ dbSpecies' = dbSpecies /\ dbPresent' = dbPresent
       /\ form' = form /\ editOpen' = editOpen]_vars

\* The one confirmation shown so far was declined: the card is there, nothing
\* was sent and nothing is shown.
C16_Witness ==
  /\ prompts = <<FALSE>>
  /\ mounted /\ ~reloading /\ ~isDeleting /\ dbPresent
  /\ deletes = EmptyBag /\ toast = None
  /\ "delete" \in CardControls(species, sessionId)

\* ======================================================== failure policy
\* C17 (as stated): the failure of a species update, a species delete, a
\* comment insert or a comment delete puts up a notification, and the failure
\* of the author lookup, the comments fetch or the session fetch puts up none.
C17_FailedMutationsNotified ==
  [][/\ \A r \in BagToSet(net) :
          (AddCommentErr(r) \/ DeleteCommentErr(r)) => toast' # None
     /\ \A r \in BagToSet(updates) :
          (UpdateErr(r) \/ UpdateThrows(r)) => toast' # None
     /\ \A r \in BagToSet(deletes) :
          DeleteSpeciesErr(r) => toast' # None
     /\ \A r \in BagToSet(net) :
          (FetchAuthorErr(r) \/ FetchCommentsErr(r) \/ GetUserSessionErr(r)) =>
            toast' = toast]_vars

\* C17, the part about the reads: a failed author lookup, comments fetch or
\* session fetch changes neither the notification nor what the dialog shows
\* of the other reads, and does not break the render.
C17_FailedReadsSilent ==
  [][\A r \in BagToSet(net) :
       (FetchAuthorErr(r) \/ FetchCommentsErr(r) \/ GetUserSessionErr(r)) =>
         /\ toast' = toast
         /\ comments' = comments /\ author' = author
         /\ crashed' = crashed /\ open' = open]_vars

\* ===================================================== validation schema
\* C18: a submit of a draft whose kingdom is none of Animalia, Plantae, Fungi,
\* Protista, Archaea, Bacteria shows an error at kingdom and sends nothing,
\* and no update on its way carries such a kingdom.
C18_KingdomOutsideEnumRejected ==
  [][/\ (/\ HandleSubmit
         /\ form.kingdom \notin {"Animalia", "Plantae", "Fungi", "Protista", "Archaea", "Bacteria"}) =>
          /\ "kingdom" \in formErrors'
          /\ updates' = updates
     /\ \A r \in BagToSet(updates') :
          r.payload.kingdom \in {"Animalia", "Plantae", "Fungi", "Protista", "Archaea", "Bacteria"}]_vars

\* A draft, valid but for its kingdom Chromista, has been submitted: the
\* error is at kingdom and nothing has been sent.
C18_Witness ==
  /\ form.kingdom = "Chromista" /\ submits = 1
  /\ formErrors = {"kingdom"}
  /\ updates = EmptyBag /\ toast = None /\ dbSpecies = FullRow

\* C19 (as stated): whatever is typed into the population input, the draft's
\* total_population becomes null or a positive integer: the empty text gives
\* null, and zero, negatives, fractions and non-numbers never get into it.
C19_ConversionRejectsOutOfRange ==
  [][\A typed \in PopulationTyped :
       SetPopulation(NumberInputValue(typed)) =>
         /\ (typed = <<>> => form'.total_population = None)
         /\ \/ form'.total_population = None
            \/ /\ IsInteger(form'.total_population[1])
               /\ form'.total_population[1] > 0]_vars

\* C19, what the code does instead: the empty text gives null; a number typed
\* goes into the draft as it is, and text that is no number gives null; and a
\* submit of a draft whose population is zero, negative or fractional shows
\* an error at total_population and sends nothing.
C19_OutOfRangeStoppedBySchema ==
  [][/\ \A typed \in PopulationTyped :
          SetPopulation(NumberInputValue(typed)) =>
            /\ (typed = <<>> => form'.total_population = None)
            /\ (typed = <<"a">> => form'.total_population = None)
            /\ (typed = <<"0">> => form'.total_population = Some(0))
            /\ (typed = <<"5", "0", "0">> => form'.total_population = Some(5000))
     /\ (/\ HandleSubmit /\ form.total_population # None
         /\ ~(IsInteger(form.total_population[1]) /\ form.total_population[1] > 0)) =>
          /\ "total_population" \in formErrors'
          /\ updates' = updates]_vars

\* Zero sits in the draft and a submit has shown the error at the field.
C19_Witness ==
  /\ form.total_population = Some(0) /\ submits > 0
  /\ formErrors = {"total_population"} /\ updates = EmptyBag

\* C20: a submit of a valid draft sends the draft's total_population as it
\* is; when the update has gone through, the stored row, the form and the
\* defaults of an edit form opened on the refreshed record all hold it.
C20_PopulationRoundTrip ==
  [][/\ (HandleSubmit /\ ErrorFields(form) = {}) =>
          \E r \in BagToSet(updates') :
            /\ updates' = updates (+) One(r)
            /\ r.payload.total_population = form.total_population
     /\ \A r \in BagToSet(updates) :
          UpdateOk(r) =>
            /\ dbSpecies'.total_population = r.input.total_population
            /\ form'.total_population = r.input.total_population
            /\ DefaultValues(species').total_population = r.input.total_population]_vars

\* The record that had no population stores 500, typed into the form, and
\* the form, open again, shows it.
C20_Witness ==
  /\ dbSpecies.image = None /\ dbSpecies.total_population = Some(5000)
  /\ species = dbSpecies
  /\ editOpen /\ form.total_population = Some(5000)
  /\ DefaultValues(species).total_population = Some(5000)
  /\ updates = EmptyBag

\* ================================================= after a successful edit
\* The places of call c in the sequence of calls cs.
PlacesOf(cs, c) == {i \in 1..Len(cs) : cs[i] = c}

\* C21: when the update of a submit has gone through, the form's pristine
\* baseline and its values are the submitted record, the dialog is closed and
\* the list snapshot is the stored row; the continuation resets the form,
\* closes the dialog and asks for the refresh once each and in that order;
\* and a failed update does none of the three.
C21_SuccessResetsClosesRefreshes ==
  [][\A r \in BagToSet(updates) :
       /\ UpdateOk(r) =>
            /\ pristine' = r.input /\ form' = r.input
            /\ ~editOpen'
            /\ species' = dbSpecies'
            /\ \A c \in {"form.reset", "setOpen(false)", "router.refresh"} :
                 Cardinality(PlacesOf(calls', c)) = 1
            /\ \A i \in PlacesOf(calls', "form.reset") :
                 \A j \in PlacesOf(calls', "setOpen(false)") :
                   \A k \in PlacesOf(calls', "router.refresh") : i < j /\ j < k
       /\ (UpdateErr(r) \/ UpdateThrows(r)) =>
            /\ pristine' = pristine /\ editOpen' = editOpen /\ species' = species
            /\ \A c \in {"form.reset", "setOpen(false)", "router.refresh"} :
                 PlacesOf(calls', c) = {}]_vars

\* An edit of the kingdom has gone through: the dialog is closed, the
\* baseline is the submitted record and the snapshot is the stored row.
C21_Witness ==
  /\ calls = SuccessCalls /\ ~editOpen
  /\ pristine.kingdom = "Plantae" /\ form = pristine
  /\ dbSpecies.kingdom = "Plantae" /\ species = dbSpecies
  /\ updates = EmptyBag

\* ============================================ comment list, interleavings
\* cs is ordered newest-first by created_at.
NewestFirst(cs) ==
  \A i \in 1..Len(cs) : \A j \in 1..Len(cs) :
    i < j => cs[i].created_at >= cs[j].created_at

\* C22 (as stated): the comment list is ordered newest-first by created_at.
C22_NewestFirst == NewestFirst(comments)

\* C22, what the code keeps: the rows of a comments answer are stored
\* newest-first, and a delete leaves a list that was newest-first so.
C22_FetchedNewestFirst ==
  [][\A r \in BagToSet(net) :
       /\ FetchCommentsOk(r) => NewestFirst(comments')
       /\ (DeleteCommentOk(r) /\ NewestFirst(comments)) => NewestFirst(comments')]_vars

\* C23: closing the dialog leaves every outstanding request outstanding; an
\* answer that is there for a closed dialog can be delivered; and delivered
\* to a closed dialog, a comments answer becomes the list, a session answer
\* the identity and an author answer the author.
C23_AnswersAppliedAfterClose ==
  [][/\ (open /\ ~open') => net' = net
     /\ (~open /\ ~crashed) =>
          /\ \A r \in BagToSet(net) :
               /\ (r.kind = "fetchComments" /\ r.stage = "ok") => ENABLED FetchCommentsOk(r)
               /\ r.kind = "getUser" => ENABLED GetUserSessionOk(r)
               /\ r.kind = "fetchAuthor" => ENABLED FetchAuthorOk(r)
          /\ \A r \in BagToSet(net) :
               /\ FetchCommentsOk(r) => comments' = r.rows
               /\ GetUserSessionOk(r) => userId' = session
               /\ FetchAuthorOk(r) => author' = Some(Profile(r.user))]_vars

\* A closed dialog holds fetched rows it has never rendered: their answer
\* came in after the close.
C23_Witness ==
  /\ ~open /\ ~crashed
  /\ comments # <<>> /\ ~HasUser(comments[1])
  /\ author # None

\* C24 (as stated): an entry that a successful insert put into the list is
\* still in the list after every step that leaves the dialog open, unless
\* the step is the delete of that entry going through.
C24_AddedCommentStays ==
  [][\A i \in 1..Len(comments) :
       (HasUser(comments[i]) /\ open /\ open') =>
         \/ \E j \in 1..Len(comments') : comments'[j].id = comments[i].id
         \/ \E r \in BagToSet(net) :
              r.kind = "delete" /\ r.id = comments[i].id /\ DeleteCommentOk(r)]_vars

\* C25 (as stated): no two entries of the comment list have the same id.
C25_NoDuplicateIds ==
  \A i \in 1..Len(comments) : \A j \in 1..Len(comments) :
    comments[i].id = comments[j].id => i = j

\* C26 (as stated): when the last of the outstanding comments fetches is
\* answered, the list is the rows answered to the fetch dispatched last,
\* whatever the order the answers arrived in.
C26_LatestFetchWins ==
  [][\A r \in BagToSet(net) :
       (/\ FetchCommentsOk(r)
        /\ CountOf(net', "fetchComments", "sent") = 0
        /\ CountOf(net', "fetchComments", "ok") = 0
        /\ latestFetch.stage = "ok")
       => comments' = latestFetch.rows]_vars

\* C27 (as stated): while an add-comment insert for the text in the field is
\* in flight, Submit sends no second insert.
C27_OneInsertPerInput ==
  [][(/\ HandleAddComment
      /\ \E r \in BagToSet(net) : r.kind = "insert" /\ r.text = newComment)
     => net' = net]_vars

====
